---- MODULE Spec2Model ----
(***************************************************************************)
(* Worker supervision and precompute cache of the LIPSYNC servers.         *)
(*                                                                         *)
(*   - WorkerManager (LIPSYNC/app_worker.py): the supervisor that owns the *)
(*     worker process and talks to it over stdin/stdout;                   *)
(*   - the worker command loop (LIPSYNC/sadtalker_worker.py);              *)
(*   - the disk-backed face precompute cache (LIPSYNC/app_optimized.py and *)
(*     LIPSYNC/optimized_pipeline.py).                                     *)
(***************************************************************************)
EXTENDS Integers, Sequences, FiniteSets, TLC

(* ------------------------------ bounds --------------------------------- *)
NumThreads == 2      \* caller threads of the Flask server (threaded=True)
NumAvatars == 2      \* distinct avatar paths (subjects)
MaxSpawns == 2       \* worker processes ever spawned
MaxCalls == 4        \* calls of the manager's methods in one behaviour
ErrPipeCap == 6      \* diagnostic lines the worker's stderr pipe holds
MaxRequests == 4     \* calls made on the pipeline object
NumModels == 3       \* preprocess, audio-to-coefficient and animation models
MaxLines == 3        \* lines fed to a worker's stdin by the loop's environment

Threads == 1..NumThreads
Avatars == 1..NumAvatars

VARIABLES
    \* WorkerManager fields (app_worker.py:102-106)
    process,            \* 0 is None, otherwise the pid of the Popen handle
    ready,
    lock,               \* 0 is free, otherwise the thread holding self.lock
    face_precomputed,
    \* caller threads
    pc, op, ret,
    \* The worker process spawned last (pid = spawned).  A worker is spawned
    \* only when the previous one has exited, so at most one is alive.
    wpc,                \* "unborn", "init", "loop", "analysing", "render", "exited"
    stdin, stdout,      \* its pipes: sequences of lines
    face_cache,         \* SadTalkerWorker._face_cache: the avatars it holds
    wcmd,               \* the command its handler is running
    errfree,            \* room left in its stderr pipe, which nobody reads while
                        \*   it lives, in diagnostic lines
    \* history
    calls, spawned, fed,
    wire,               \* command lines written to this worker, by action and avatar
    wireSkew,           \* by action: lines written minus calls of the method it belongs to
    analysed,           \* successful face analyses of this worker, by avatar
    analysedEver,       \* successful face analyses of all workers, by avatar
    pending,            \* non-blank lines this worker read minus responses it wrote
    shaken,             \* the manager has read the ready line of the process it holds
    lost,               \* a call has read end of file and no start has succeeded since
    \* The face precompute cache of one server process
    variant,            \* "app": app_optimized.py, "pipe": optimized_pipeline.py
    coeff, crop,        \* first_coeff.mat, avatar_cropped.png: 0 is absent,
                        \*   otherwise the avatar the content was derived from
    meta,               \* face_meta.json: 0 absent, -1 unreadable, otherwise its avatar_path
    mem_avatar,         \* _current_avatar_path / precomputed_face.avatar_path (0 is None)
    mem_face,           \* _precomputed_face: 0 is None, otherwise the avatar of its crop_info
    cpc, cstep, creq,   \* the call in progress
    cret,               \* what the last call returned
    crashed, everStored, \* history
    \* chunk_audio of optimized_pipeline.py; lengths and offsets in frames
    a_frames, a_rate,   \* wav.getnframes(), wav.getframerate() of the input
    chunks,             \* the list being returned
    cfiles,             \* the chunk files ffmpeg has written
    apc, ci,            \* position in chunk_audio, loop index
    \* generate_full of optimized_pipeline.py
    gpc,                \* position in generate_full
    g_avatar,           \* self.config.avatar_path (0 is None)
    video_chunks,       \* the list of VideoChunk
    encoded_paths,      \* the list of encoded files
    concat_list,        \* the lines of concat_list.txt
    gret,               \* the path generate_full returned
    glog,               \* history: what generate_full has called, in order
    \* One pipeline object used by the request threads: load_models of
    \* optimized_pipeline.py, app_optimized.py and app_preloaded.py, and
    \* generate / precompute_face of app_preloaded.py
    models_loaded,      \* self._models_loaded / self.models_loaded
    model_lock,         \* self._model_lock / self._lock: 0 is free, else the holder
    models,             \* how many of the three model fields are assigned
    pl_cache,           \* SadTalkerPipeline.face_cache: the avatars it holds
    pl_pc, pl_op, pl_ret, pl_step,  \* per thread: position, request, result, loop index
    loads, raised, pl_calls  \* history: loads begun, loads ended by an exception, calls made

mgrVars == <<process, ready, lock, face_precomputed>>
thrVars == <<pc, op, ret>>
wkVars == <<wpc, stdin, stdout, face_cache, wcmd, errfree>>
histVars == <<calls, spawned, fed, wire, wireSkew, analysed, analysedEver, pending,
              shaken, lost>>
supVars == <<mgrVars, thrVars, wkVars, histVars>>
cacheVars == <<variant, coeff, crop, meta, mem_avatar, mem_face,
               cpc, cstep, creq, cret, crashed, everStored>>
chunkVars == <<a_frames, a_rate, chunks, cfiles, apc, ci>>
fullVars == <<gpc, g_avatar, video_chunks, encoded_paths, concat_list, gret, glog>>
loadVars == <<models_loaded, model_lock, models, pl_cache, pl_pc, pl_op, pl_ret, pl_step,
              loads, raised, pl_calls>>
vars == <<supVars, cacheVars, chunkVars, fullVars, loadVars>>

(* ------------------------------ the wire ------------------------------- *)
\* One line of the worker's stdin. kind "cmd" is a JSON object; avatar 0
\* is a command object without its "avatar_path" key.
Line(kind, action, avatar) == [kind |-> kind, action |-> action, avatar |-> avatar]
NoLine == Line("none", "none", 0)

\* One line of the worker's stdout; action is the command it answers.
Resp(status, action, avatar, cached) ==
    [status |-> status, action |-> action, avatar |-> avatar, cached |-> cached]

Actions == {"precompute", "generate", "quit"}

\* The command each manager method writes.
CommandOfGenerateAsPrecompute(o) ==
    CASE o.kind = "precompute" -> Line("cmd", "precompute", o.avatar)
      [] o.kind = "generate" -> Line("cmd", "precompute", o.avatar)
      [] o.kind = "stop" -> Line("cmd", "quit", 0)
CommandOf(o) ==
    CASE o.kind = "precompute" -> Line("cmd", "precompute", o.avatar)
      [] o.kind = "generate" -> Line("cmd", "generate", o.avatar)
      [] o.kind = "stop" -> Line("cmd", "quit", 0)

\* The action a method of the manager stands for.
ActionOfMethod(k) == IF k = "stop" THEN "quit" ELSE k

\* The last worker has not exited.
Alive == wpc \notin {"unborn", "exited"}
\* self.process and self.process.poll() is None
Running == process # 0 /\ Alive
\* WorkerManager.is_ready: self.ready and self.process and self.process.poll() is None
IsReady == ready /\ Running

Op(kind, avatar) == [kind |-> kind, avatar |-> avatar]
NoOp == Op("none", 0)

NoWire == [k \in Actions |-> [a \in 0..NumAvatars |-> 0]]
NoneAnalysed == [a \in Avatars |-> 0]

(* ------------------------------- Init ---------------------------------- *)
\* No thread uses a pipeline object.
InitNoLoad ==
    /\ models_loaded = FALSE /\ model_lock = 0 /\ models = 0 /\ pl_cache = {}
    /\ pl_pc = [t \in Threads |-> "idle"]
    /\ pl_op = [t \in Threads |-> NoOp]
    /\ pl_ret = [t \in Threads |-> "none"]
    /\ pl_step = [t \in Threads |-> 0]
    /\ loads = 0 /\ raised = 0 /\ pl_calls = 0

InitMgr ==
    /\ process = 0
    /\ ready = FALSE
    /\ lock = 0
    /\ face_precomputed = FALSE
    /\ pc = [t \in Threads |-> "idle"]
    /\ op = [t \in Threads |-> NoOp]
    /\ ret = [t \in Threads |-> "none"]

InitHist ==
    /\ calls = 0
    /\ fed = 0
    /\ wire = NoWire
    /\ wireSkew = [k \in Actions |-> 0]
    /\ analysed = NoneAnalysed
    /\ analysedEver = NoneAnalysed
    /\ pending = 0
    /\ shaken = FALSE
    /\ lost = FALSE

InitWorker ==
    /\ stdin = <<>>
    /\ stdout = <<>>
    /\ face_cache = {}
    /\ wcmd = NoLine
    /\ errfree = ErrPipeCap

\* The result of a precompute call: the artifact handed to the caller.
Artifact(subject, c, p, info, src) ==
    [subject |-> subject, coeff |-> c, crop |-> p, info |-> info, src |-> src]
NoArtifact == Artifact(0, 0, 0, 0, "none")

Request(avatar, force, route) == [avatar |-> avatar, force |-> force, route |-> route]
NoRequest == Request(0, FALSE, "none")

\* A server process that has just been constructed, whatever is on disk.
InitCacheProcess ==
    /\ mem_avatar = 0
    /\ mem_face = 0
    /\ cpc = "idle"
    /\ cstep = 0
    /\ creq = NoRequest
    /\ cret = NoArtifact
    /\ crashed = FALSE
    /\ everStored = {}

\* precompute_dir has just been created: nothing is cached.
InitDiskEmpty == coeff = 0 /\ crop = 0 /\ meta = 0

\* No audio has been handed to chunk_audio.
InitNoChunks ==
    /\ a_frames = 0 /\ a_rate = 1
    /\ chunks = <<>> /\ cfiles = {}
    /\ apc = "none" /\ ci = 0

\* A path of an output file: the encoded file of a chunk, or final_output.mp4.
OutPath(kind, index) == [kind |-> kind, index |-> index]
NoPath == OutPath("none", 0)

\* generate_full has not been called.
InitNoFull ==
    /\ gpc = "none" /\ g_avatar = 0
    /\ video_chunks = <<>> /\ encoded_paths = <<>> /\ concat_list = <<>>
    /\ gret = NoPath /\ glog = <<>>

\* The cache is not part of the worker server.
InitNoCache ==
    variant = "app" /\ InitDiskEmpty /\ InitCacheProcess /\ InitNoChunks /\ InitNoFull

Init ==
    /\ InitMgr /\ InitHist /\ InitWorker /\ wpc = "unborn" /\ spawned = 0
    /\ InitNoCache /\ InitNoLoad

(* --------------------- the worker's command loop ----------------------- *)
\* print(json.dumps(...), flush=True): one response line on stdout.
Respond(r) ==
    /\ stdout' = Append(stdout, r)
    /\ pending' = pending - 1

\* SadTalkerWorker.precompute_face's cache check: a miss runs the analysis.
NeedsAnalysisAlways(a) == TRUE
NeedsAnalysis(a) == a \notin face_cache

\* What the body of the loop does with a non-blank line:
\*   "error"    json.loads or the handler raised, or the action is unknown
\*   "pong", "bye"
\*   "cached"   precompute answered from _face_cache
\*   "render"   generate with the face data in _face_cache
\*   "analyse"  the face analysis has to run first
\*   "skip"     nothing is printed (no branch of the code does this)
DispatchSilentUnknown(l) ==
    CASE l.kind \in {"badjson", "nonobject"} -> "error"
      [] l.action = "ping" -> "pong"
      [] l.action = "quit" -> "bye"
      [] l.action \in {"generate", "precompute"} /\ l.avatar = 0 -> "error"
      [] l.action \in {"generate", "precompute"} /\ l.avatar # 0 ->
            IF NeedsAnalysis(l.avatar) THEN "analyse"
            ELSE IF l.action = "precompute" THEN "cached" ELSE "render"
      [] OTHER -> "skip"
Dispatch(l) ==
    CASE l.kind \in {"badjson", "nonobject"} -> "error"
      [] l.action = "generate" ->
            IF l.avatar = 0 THEN "error"
            ELSE IF NeedsAnalysis(l.avatar) THEN "analyse" ELSE "render"
      [] l.action = "precompute" ->
            IF l.avatar = 0 THEN "error"
            ELSE IF NeedsAnalysis(l.avatar) THEN "analyse" ELSE "cached"
      [] l.action = "ping" -> "pong"
      [] l.action = "quit" -> "bye"
      [] OTHER -> "error"

\* The ready line is printed twice.
WorkerInitReadyTwice ==
    /\ wpc = "init"
    /\ wpc' = "loop"
    /\ stdout' = stdout \o <<Resp("ready", "none", 0, FALSE), Resp("ready", "none", 0, FALSE)>>
    /\ UNCHANGED <<mgrVars, thrVars, stdin, face_cache, wcmd, errfree, histVars>>
    /\ UNCHANGED <<cacheVars, chunkVars, fullVars, loadVars>>

\* SadTalkerWorker() is constructed, then {"status": "ready"} is printed.
WorkerInit ==
    /\ wpc = "init"
    /\ wpc' = "loop"
    /\ stdout' = Append(stdout, Resp("ready", "none", 0, FALSE))
    /\ UNCHANGED <<mgrVars, thrVars, stdin, face_cache, wcmd, errfree, histVars>>
    /\ UNCHANGED <<cacheVars, chunkVars, fullVars, loadVars>>

\* The handler of line l raises: json.loads or cmd.get fails, or the command
\* lacks a key. (An unknown action is answered without an exception.)
Raises(l) ==
    \/ l.kind \in {"badjson", "nonobject"}
    \/ l.action \in {"generate", "precompute"} /\ l.avatar = 0

\* Diagnostic lines written to stderr before the response, by the part of
\* the handler each step stands for:
\*   reading a line: "[Worker] Extracting face from ..." when the analysis
\*     has to run, the traceback when the handler raises at once;
\*   the analysis: "[Worker] Face extracted in ..." or the traceback;
\*   the rendering: "[Worker] Generating for ..." and then
\*     "[Worker] Done in ..." or the traceback.
StderrLines(step, l) ==
    CASE step = "read" ->
           IF l.kind = "blank" THEN 0
           ELSE IF Dispatch(l) = "analyse" \/ (Dispatch(l) = "error" /\ Raises(l)) THEN 1
           ELSE 0
      [] step = "analysing" -> 1
      [] step = "render" -> 2

\* One turn of the loop up to the first long-running call of the handler:
\*   for line in sys.stdin: line = line.strip(); if not line: continue
\*   try: cmd = json.loads(line); action = cmd.get("action"); ...
\* After "bye" the loop is left and the process ends: its memory is gone,
\* what was not read stays unread in the pipe.
WorkerRead ==
    /\ wpc = "loop"
    /\ stdin # <<>>
    /\ errfree >= StderrLines("read", Head(stdin))
    /\ errfree' = errfree - StderrLines("read", Head(stdin))
    /\ LET l == Head(stdin)
           d == Dispatch(l)
       IN  IF l.kind = "blank"
             THEN /\ stdin' = Tail(stdin)
                  /\ UNCHANGED <<wpc, wcmd, pending, stdout, face_cache>>
             ELSE CASE d = "error" ->
                         /\ stdout' = Append(stdout, Resp("error", l.action, l.avatar, FALSE))
                         /\ stdin' = Tail(stdin)
                         /\ UNCHANGED <<wpc, wcmd, pending, face_cache>>
                    [] d = "pong" ->
                         /\ stdout' = Append(stdout, Resp("pong", l.action, 0, FALSE))
                         /\ stdin' = Tail(stdin)
                         /\ UNCHANGED <<wpc, wcmd, pending, face_cache>>
                    [] d = "bye" ->
                         /\ stdout' = Append(stdout, Resp("bye", l.action, 0, FALSE))
                         /\ wpc' = "exited"
                         /\ stdin' = Tail(stdin)
                         /\ face_cache' = {}
                         /\ UNCHANGED <<wcmd, pending>>
                    [] d = "cached" ->
                         /\ stdout' = Append(stdout, Resp("ok", l.action, l.avatar, TRUE))
                         /\ stdin' = Tail(stdin)
                         /\ UNCHANGED <<wpc, wcmd, pending, face_cache>>
                    [] d = "render" ->
                         /\ wpc' = "render"
                         /\ wcmd' = l
                         /\ pending' = pending + 1
                         /\ stdin' = Tail(stdin)
                         /\ UNCHANGED <<stdout, face_cache>>
                    [] d = "analyse" ->
                         /\ wpc' = "analysing"
                         /\ wcmd' = l
                         /\ pending' = pending + 1
                         /\ stdin' = Tail(stdin)
                         /\ UNCHANGED <<stdout, face_cache>>
                    [] d = "skip" ->
                         /\ pending' = pending + 1
                         /\ stdin' = Tail(stdin)
                         /\ UNCHANGED <<wpc, wcmd, stdout, face_cache>>
    /\ UNCHANGED <<mgrVars, thrVars, calls, spawned, fed, wire, wireSkew,
                   analysed, analysedEver>>
    /\ UNCHANGED <<cacheVars, chunkVars, fullVars, loadVars>>
    /\ UNCHANGED <<shaken, lost>>

\* The entry is stored before the result of the analysis is looked at.
FaceCacheAfterStoredAnyway(cache, a, ok) == cache \cup {a}

\* _face_cache after the analysis of avatar a: the entry is stored at line
\* 102, after "if first_coeff_path is None: raise" at lines 93-94.
FaceCacheAfter(cache, a, ok) == IF ok THEN cache \cup {a} ELSE cache

\* preprocess_model.generate returns: coefficients (the entry is stored in
\* _face_cache) or None (RuntimeError, answered with an error response).
WorkerAnalysed ==
    /\ wpc = "analysing"
    /\ errfree >= StderrLines("analysing", wcmd)
    /\ errfree' = errfree - StderrLines("analysing", wcmd)
    /\ \E ok \in BOOLEAN :
          /\ face_cache' = FaceCacheAfter(face_cache, wcmd.avatar, ok)
          /\ IF ok
            THEN /\ analysed' = [analysed EXCEPT ![wcmd.avatar] = @ + 1]
                 /\ analysedEver' = [analysedEver EXCEPT ![wcmd.avatar] = @ + 1]
                 /\ IF wcmd.action = "precompute"
                      THEN /\ Respond(Resp("ok", wcmd.action, wcmd.avatar, FALSE))
                           /\ wpc' = "loop"
                           /\ wcmd' = NoLine
                      ELSE /\ wpc' = "render"
                           /\ UNCHANGED <<stdout, pending, wcmd>>
            ELSE /\ Respond(Resp("error", wcmd.action, wcmd.avatar, FALSE))
                 /\ wpc' = "loop"
                 /\ wcmd' = NoLine
                 /\ UNCHANGED <<analysed, analysedEver>>
    /\ UNCHANGED <<mgrVars, thrVars, stdin, calls, spawned, fed, wire, wireSkew>>
    /\ UNCHANGED <<cacheVars, chunkVars, fullVars, loadVars>>
    /\ UNCHANGED <<shaken, lost>>

\* The rest of SadTalkerWorker.generate: the video path, or an exception.
WorkerRendered ==
    /\ wpc = "render"
    /\ errfree >= StderrLines("render", wcmd)
    /\ errfree' = errfree - StderrLines("render", wcmd)
    /\ \E ok \in BOOLEAN :
          Respond(Resp(IF ok THEN "ok" ELSE "error", wcmd.action, wcmd.avatar, FALSE))
    /\ wpc' = "loop"
    /\ wcmd' = NoLine
    /\ UNCHANGED <<mgrVars, thrVars, stdin, face_cache,
                   calls, spawned, fed, wire, wireSkew, analysed, analysedEver>>
    /\ UNCHANGED <<cacheVars, chunkVars, fullVars, loadVars>>
    /\ UNCHANGED <<shaken, lost>>

\* The process is killed or crashes; what it wrote stays in the pipe, its
\* memory and the unread input are gone.
WorkerDie ==
    /\ Alive
    /\ wpc' = "exited"
    /\ stdin' = <<>>
    /\ face_cache' = {}
    /\ wcmd' = NoLine
    /\ pending' = 0
    /\ UNCHANGED <<mgrVars, thrVars, stdout, errfree,
                   calls, spawned, fed, wire, wireSkew, analysed, analysedEver>>
    /\ UNCHANGED <<cacheVars, chunkVars, fullVars, loadVars>>
    /\ UNCHANGED <<shaken, lost>>

\* The stderr pipe has no room for what the worker writes next: the write
\* blocks, after what the handler did before it (the line is read, a face
\* that was extracted is in _face_cache), and no response is printed.
WorkerBlocked ==
    /\ \/ /\ wpc = "loop" /\ stdin # <<>>
          /\ errfree < StderrLines("read", Head(stdin))
          /\ stdin' = Tail(stdin)
          /\ wcmd' = Head(stdin)
          /\ pending' = pending + 1
          /\ UNCHANGED <<face_cache, analysed, analysedEver>>
       \/ /\ wpc = "analysing"
          /\ errfree < StderrLines("analysing", wcmd)
          /\ \E ok \in BOOLEAN :
               /\ face_cache' = FaceCacheAfter(face_cache, wcmd.avatar, ok)
               /\ IF ok
                    THEN /\ analysed' = [analysed EXCEPT ![wcmd.avatar] = @ + 1]
                         /\ analysedEver' = [analysedEver EXCEPT ![wcmd.avatar] = @ + 1]
                    ELSE UNCHANGED <<analysed, analysedEver>>
          /\ UNCHANGED <<stdin, wcmd, pending>>
       \/ /\ wpc = "render"
          /\ errfree < StderrLines("render", wcmd)
          /\ UNCHANGED <<stdin, wcmd, pending, face_cache, analysed, analysedEver>>
    /\ wpc' = "blocked"
    /\ errfree' = 0
    /\ UNCHANGED <<mgrVars, thrVars, stdout, calls, spawned, fed, wire, wireSkew>>
    /\ UNCHANGED <<cacheVars, chunkVars, fullVars, loadVars>>
    /\ UNCHANGED <<shaken, lost>>

Worker ==
    \/ WorkerInit
    \/ WorkerRead
    \/ WorkerAnalysed
    \/ WorkerRendered
    \/ WorkerBlocked
    \/ WorkerDie

(* --------------------------- WorkerManager ----------------------------- *)
\* The pipes and the memory of a process that has just been spawned, or
\* whose handle has been dropped.
FreshPipes ==
    /\ stdin' = <<>>
    /\ stdout' = <<>>
    /\ face_cache' = {}
    /\ wcmd' = NoLine
    /\ errfree' = ErrPipeCap

InStart == {t \in Threads : pc[t] = "s_lock"}

\* A caller thread enters a method of the manager.  The threads of the
\* server are interchangeable: a request is served by the first idle one.
Call(t, o) ==
    /\ pc[t] = "idle"
    /\ \A u \in Threads : u < t => pc[u] # "idle"
    /\ calls < MaxCalls
    /\ o.kind = "start" => spawned + Cardinality(InStart) < MaxSpawns
    /\ calls' = calls + 1
    /\ op' = [op EXCEPT ![t] = o]
    /\ ret' = [ret EXCEPT ![t] = "none"]
    /\ pc' = [pc EXCEPT ![t] =
                CASE o.kind = "start" -> "s_lock"
                  [] o.kind = "stop" -> "q_lock"
                  [] OTHER -> "check"]
    /\ UNCHANGED <<mgrVars, wkVars, spawned, fed, wire, wireSkew,
                   analysed, analysedEver, pending>>
    /\ UNCHANGED <<cacheVars, chunkVars, fullVars, loadVars>>
    /\ UNCHANGED <<shaken, lost>>

\* _send_command is left, by return or by exception: stop() swallows the
\* exception and goes on to terminate, the other methods return to the caller.
Leave(t, r) ==
    /\ ret' = [ret EXCEPT ![t] = r]
    /\ pc' = [pc EXCEPT ![t] = IF op[t].kind = "stop" THEN "q_term" ELSE "idle"]

\* _send_command: if not self.process or self.process.poll() is not None: raise
SendCheck(t) ==
    /\ pc[t] = "check"
    /\ IF ~Running
         THEN Leave(t, "not_running")
         ELSE /\ pc' = [pc EXCEPT ![t] = "write"]
              /\ UNCHANGED ret
    /\ UNCHANGED <<mgrVars, op, wkVars, histVars>>
    /\ UNCHANGED <<cacheVars, chunkVars, fullVars, loadVars>>

\* self.process.stdin.write(json.dumps(cmd) + "\n"); flush()
\* precompute_face() and generate() get here without taking self.lock.
SendWrite(t) ==
    /\ pc[t] = "write"
    /\ IF ~Running
         THEN \* AttributeError on None, or a broken pipe
              /\ Leave(t, "exception")
              /\ UNCHANGED <<stdin, wire, wireSkew>>
         ELSE LET c == CommandOf(op[t]) IN
              /\ stdin' = Append(stdin, c)
              /\ wire' = [wire EXCEPT ![c.action][c.avatar] = @ + 1]
              /\ wireSkew' = [k \in Actions |->
                                wireSkew[k] + (IF k = c.action THEN 1 ELSE 0)
                                  - (IF k = ActionOfMethod(op[t].kind) THEN 1 ELSE 0)]
              /\ pc' = [pc EXCEPT ![t] = "recv"]
              /\ UNCHANGED ret
    /\ UNCHANGED <<mgrVars, op, wpc, stdout, face_cache, wcmd, errfree,
                   calls, spawned, fed, analysed, analysedEver, pending>>
    /\ UNCHANGED <<cacheVars, chunkVars, fullVars, loadVars>>
    /\ UNCHANGED <<shaken, lost>>

\* The status of the response is not looked at.
OutcomeIgnoresStatus(o, r) == "ok"

\* A line that does not parse is taken as an empty response and returned.
OutcomeUnparsedReturned(o, r) ==
    IF r.status = "ok" \/ r.status = "garbage" THEN "ok" ELSE "error"

\* What the method makes of the response line it read.
Outcome(o, r) ==
    CASE r.status = "garbage" -> "exception"      \* json.loads raises
      [] o.kind = "generate" ->
            IF r.status # "ok" THEN "error"
            ELSE IF r.action = "generate" THEN "ok" ELSE "exception"  \* resp["video_path"]
      [] o.kind = "precompute" -> IF r.status = "ok" THEN "ok" ELSE "error"
      [] OTHER -> "ok"

\* line = self.process.stdout.readline(): blocks until a line or end of file.
SendRecv(t) ==
    /\ pc[t] = "recv"
    /\ IF process = 0
         THEN /\ Leave(t, "exception")
              /\ UNCHANGED <<stdout, face_precomputed>>
         ELSE IF stdout # <<>>
         THEN /\ stdout' = Tail(stdout)
              /\ Leave(t, Outcome(op[t], Head(stdout)))
              /\ face_precomputed' =
                    IF op[t].kind = "precompute" /\ Head(stdout).status = "ok"
                    THEN TRUE ELSE face_precomputed
         ELSE /\ ~Alive               \* if not line: raise "Worker died"
              /\ Leave(t, "worker_died")
              /\ UNCHANGED <<stdout, face_precomputed>>
    /\ lost' = (lost \/ (process # 0 /\ stdout = <<>>))
    /\ UNCHANGED <<process, ready, lock, op, wpc, stdin, face_cache, wcmd, errfree>>
    /\ UNCHANGED <<calls, spawned, fed, wire, wireSkew, analysed, analysedEver, pending, shaken>>
    /\ UNCHANGED <<cacheVars, chunkVars, fullVars, loadVars>>

\* start(): with self.lock:
\*   if self.process and self.process.poll() is None: return True
\*   self.process = subprocess.Popen(...)
StartSpawn(t) ==
    /\ pc[t] = "s_lock"
    /\ lock = 0
    /\ IF Running
         THEN /\ ret' = [ret EXCEPT ![t] = "true"]
              /\ pc' = [pc EXCEPT ![t] = "idle"]
              /\ UNCHANGED <<lock, process, wkVars, spawned, wire, analysed, pending>>
         ELSE /\ lock' = t
              /\ spawned' = spawned + 1
              /\ process' = spawned + 1
              /\ wpc' = "init"
              /\ FreshPipes
              /\ wire' = NoWire
              /\ analysed' = NoneAnalysed
              /\ pending' = 0
              /\ pc' = [pc EXCEPT ![t] = "s_hand"]
              /\ UNCHANGED ret
    /\ shaken' = (shaken /\ Running)
    /\ UNCHANGED <<ready, face_precomputed, op, calls, fed, wireSkew, analysedEver, lost>>
    /\ UNCHANGED <<cacheVars, chunkVars, fullVars, loadVars>>

\* The line start() is about to read is {"status": "ready"}.
HandshakeOk == stdout # <<>> /\ Head(stdout).status = "ready"

\* line = self.process.stdout.readline(); resp = json.loads(line.strip())
StartHandshake(t) ==
    /\ pc[t] = "s_hand"
    /\ IF stdout # <<>>
         THEN /\ stdout' = Tail(stdout)
              /\ IF Head(stdout).status = "ready"
                   THEN /\ ready' = TRUE
                        /\ ret' = [ret EXCEPT ![t] = "true"]
                   ELSE /\ ret' = [ret EXCEPT ![t] = "false"]
                        /\ UNCHANGED ready
         ELSE /\ ~Alive               \* json.loads("") raises: return False
              /\ ret' = [ret EXCEPT ![t] = "false"]
              /\ UNCHANGED <<stdout, ready>>
    /\ shaken' = HandshakeOk
    /\ lost' = (lost /\ ~HandshakeOk)
    /\ lock' = 0
    /\ pc' = [pc EXCEPT ![t] = "idle"]
    /\ UNCHANGED <<process, face_precomputed, op, wpc, stdin, face_cache, wcmd, errfree>>
    /\ UNCHANGED <<calls, spawned, fed, wire, wireSkew, analysed, analysedEver, pending>>
    /\ UNCHANGED <<cacheVars, chunkVars, fullVars, loadVars>>

\* stop(): with self.lock: if self.process: try _send_command(quit)
StopLock(t) ==
    /\ pc[t] = "q_lock"
    /\ lock = 0
    /\ IF process # 0
         THEN /\ lock' = t
              /\ pc' = [pc EXCEPT ![t] = "check"]
         ELSE /\ pc' = [pc EXCEPT ![t] = "idle"]
              /\ UNCHANGED lock
    /\ UNCHANGED <<process, ready, face_precomputed, op, ret, wkVars, histVars>>
    /\ UNCHANGED <<cacheVars, chunkVars, fullVars, loadVars>>

\* self.process.terminate(); self.process = None; ready, _face_precomputed = False
\* The handle is dropped, and its pipes with it.
StopTerminate(t) ==
    /\ pc[t] = "q_term"
    /\ wpc' = "exited"
    /\ FreshPipes
    /\ pending' = 0
    /\ process' = 0
    /\ ready' = FALSE
    /\ face_precomputed' = FALSE
    /\ lock' = 0
    /\ pc' = [pc EXCEPT ![t] = "idle"]
    /\ shaken' = FALSE
    /\ lost' = FALSE
    /\ UNCHANGED <<op, ret, calls, spawned, fed, wire, wireSkew, analysed, analysedEver>>
    /\ UNCHANGED <<cacheVars, chunkVars, fullVars, loadVars>>

Ops == {Op("start", 0), Op("stop", 0)}
          \cup {Op(k, a) : k \in {"precompute", "generate"}, a \in Avatars}

Manager(t) ==
    \/ \E o \in Ops : Call(t, o)
    \/ SendCheck(t)
    \/ SendWrite(t)
    \/ SendRecv(t)
    \/ StartSpawn(t)
    \/ StartHandshake(t)
    \/ StopLock(t)
    \/ StopTerminate(t)

Next == (\E t \in Threads : Manager(t)) \/ Worker

Spec == Init /\ [][Next]_vars

(* ------------- the command loop under an arbitrary stdin --------------- *)
\* The lines an environment may put on a worker's stdin: blank lines, text
\* that is not JSON, JSON that is not an object, and command objects with a
\* known or unknown action, with or without their "avatar_path".
LoopLines ==
    {Line("blank", "none", 0), Line("badjson", "none", 0), Line("nonobject", "none", 0),
     Line("cmd", "ping", 0), Line("cmd", "quit", 0), Line("cmd", "bogus", 0)}
      \cup {Line("cmd", k, a) : k \in {"precompute", "generate"}, a \in 0..NumAvatars}

Feed(l) ==
    /\ Alive
    /\ fed < MaxLines
    /\ fed' = fed + 1
    /\ stdin' = Append(stdin, l)
    /\ UNCHANGED <<mgrVars, thrVars, wpc, stdout, face_cache, wcmd, errfree,
                   calls, spawned, wire, wireSkew, analysed, analysedEver, pending>>
    /\ UNCHANGED <<cacheVars, chunkVars, fullVars, loadVars>>
    /\ UNCHANGED <<shaken, lost>>

\* python sadtalker_worker.py has been launched; nobody has written to it.
InitLoop ==
    /\ InitMgr /\ InitHist /\ InitWorker /\ wpc = "init" /\ spawned = 1
    /\ InitNoCache /\ InitNoLoad

NextLoop == (\E l \in LoopLines : Feed(l)) \/ Worker

SpecLoop == InitLoop /\ [][NextLoop]_vars

(* ---------------------- the face precompute cache ----------------------- *)
\* One precompute_dir with the fixed file names first_coeff.mat,
\* avatar_cropped.png and face_meta.json, used by one server process at a time
\* through _precompute_face (app_optimized.py) or precompute_face
\* (optimized_pipeline.py).

Variants == {"app", "pipe"}

\* What CropAndExtract.generate hands back besides the coefficients: whenever
\* it returns coefficients it also returns the path of the crop it wrote.
EngineCropOutputs == {TRUE}

\* if self._current_avatar_path == avatar_str and self._precomputed_face is not None
\* (precompute_face of optimized_pipeline.py has no such test)
MemHit(v, a) == v = "app" /\ mem_avatar = a /\ mem_face # 0

\* The disk cache is used without looking at which avatar it was made for.
DiskHitAnyIdentity(v, a, force) ==
    /\ ~force
    /\ meta \in Avatars
    /\ coeff # 0 /\ crop # 0

\* The disk cache is used without looking for the artifact files.
DiskHitMetaOnly(v, a, force) ==
    /\ ~force
    /\ meta \in Avatars
    /\ meta = a

\* The disk cache is used whether or not the caller forces a precompute.
DiskHitIgnoresForce(v, a, force) ==
    /\ meta \in Avatars
    /\ meta = a
    /\ coeff # 0 /\ crop # 0

\* face_meta.json exists and parses, its avatar_path equals the request's,
\* and first_coeff.mat and avatar_cropped.png both exist.
DiskHit(v, a, force) ==
    /\ ~force
    /\ meta \in Avatars
    /\ meta = a
    /\ coeff # 0 /\ crop # 0

\* The metadata is written before the artifact files.
StoreOrderMetaFirst(v) == <<"meta_open", "meta_write", "coeff", "crop">>

\* The order in which a miss writes the cache files; writing face_meta.json
\* first truncates it and then fills it.
StoreOrder(v) ==
    IF v = "app" THEN <<"coeff", "crop", "meta_open", "meta_write">>
                 ELSE <<"crop", "coeff", "meta_open", "meta_write">>

\* A request handler or caller asks for the face data of avatar a. The
\* /precompute route of app_optimized.py first forgets the in-memory face.
CacheCall(a, force, route) ==
    /\ cpc = "idle"
    /\ IF variant = "app" THEN ~force /\ route \in {"generate", "precompute"}
                          ELSE route = "direct"
    /\ creq' = Request(a, force, route)
    /\ cret' = NoArtifact
    /\ cpc' = "lookup"
    /\ IF route = "precompute"
         THEN mem_avatar' = 0 /\ mem_face' = 0
         ELSE UNCHANGED <<mem_avatar, mem_face>>
    /\ UNCHANGED <<variant, coeff, crop, meta, cstep, crashed, everStored>>
    /\ UNCHANGED <<loadVars, supVars, chunkVars, fullVars>>

\* The memory test and the disk test; a hit returns, a miss goes on to the
\* face analysis.
CacheLookup ==
    /\ cpc = "lookup"
    /\ LET a == creq.avatar IN
       IF MemHit(variant, a)
         THEN /\ cret' = Artifact(a, coeff, crop, mem_face, "memory")
              /\ cpc' = "idle"
              /\ UNCHANGED <<mem_avatar, mem_face>>
         ELSE IF DiskHit(variant, a, creq.force)
           THEN /\ cret' = Artifact(a, coeff, crop, meta, "disk")
                /\ mem_avatar' = meta
                /\ mem_face' = meta
                /\ cpc' = "idle"
           ELSE /\ cpc' = "analyse"
                /\ UNCHANGED <<cret, mem_avatar, mem_face>>
    /\ UNCHANGED <<variant, coeff, crop, meta, cstep, creq, crashed, everStored>>
    /\ UNCHANGED <<loadVars, supVars, chunkVars, fullVars>>

\* self._preprocess_model.generate(...): no coefficients raises RuntimeError
\* before anything is written.
CacheAnalyse ==
    /\ cpc = "analyse"
    /\ \E ok \in BOOLEAN :
         IF ok
           THEN /\ cpc' = "store"
                /\ cstep' = 1
                /\ cret' = cret
           ELSE /\ cpc' = "idle"
                /\ cstep' = 0
                /\ cret' = Artifact(creq.avatar, 0, 0, 0, "error")
    /\ UNCHANGED <<variant, coeff, crop, meta, mem_avatar, mem_face, creq,
                   crashed, everStored>>
    /\ UNCHANGED <<loadVars, supVars, chunkVars, fullVars>>

\* One write of the store sequence; the last one is followed by the
\* assignment of the in-memory face and the return.
CacheStore ==
    /\ cpc = "store"
    /\ LET a == creq.avatar
           f == StoreOrder(variant)[cstep]
           last == cstep = Len(StoreOrder(variant))
       IN /\ coeff' = IF f = "coeff" THEN a ELSE coeff
          /\ \E out \in EngineCropOutputs :
               crop' = IF f = "crop" /\ out THEN a ELSE crop
          /\ meta' = CASE f = "meta_open" -> -1
                       [] f = "meta_write" -> a
                       [] OTHER -> meta
          /\ IF last
               THEN /\ mem_avatar' = a
                    /\ mem_face' = a
                    /\ cret' = Artifact(a, coeff', crop', a, "fresh")
                    /\ everStored' = everStored \cup {a}
                    /\ cpc' = "idle"
                    /\ cstep' = 0
               ELSE /\ cstep' = cstep + 1
                    /\ UNCHANGED <<mem_avatar, mem_face, cret, everStored, cpc>>
    /\ UNCHANGED <<variant, creq, crashed>>
    /\ UNCHANGED <<loadVars, supVars, chunkVars, fullVars>>

\* The server process is killed and started again: memory is lost, the
\* files stay as they are.
CacheCrash ==
    /\ mem_avatar' = 0
    /\ mem_face' = 0
    /\ cpc' = "idle"
    /\ cstep' = 0
    /\ creq' = NoRequest
    /\ cret' = NoArtifact
    /\ crashed' = TRUE
    /\ UNCHANGED <<variant, coeff, crop, meta, everStored>>
    /\ UNCHANGED <<loadVars, supVars, chunkVars, fullVars>>

InitSup == InitMgr /\ InitHist /\ InitWorker /\ wpc = "unborn" /\ spawned = 0

\* A fresh precompute_dir, a process that is never killed.
InitCache ==
    /\ InitSup /\ InitNoLoad /\ variant \in Variants /\ InitDiskEmpty /\ InitCacheProcess
    /\ InitNoChunks /\ InitNoFull

NextCache ==
    \/ \E a \in Avatars, force \in BOOLEAN, route \in {"generate", "precompute", "direct"} :
         CacheCall(a, force, route)
    \/ CacheLookup
    \/ CacheAnalyse
    \/ CacheStore

SpecCache == InitCache /\ [][NextCache]_vars

\* A precompute_dir in any condition: each file absent or left by some
\* earlier run, the metadata possibly unreadable.
InitLookup ==
    /\ InitSup /\ InitNoLoad
    /\ variant \in Variants
    /\ coeff \in 0..NumAvatars
    /\ crop \in 0..NumAvatars
    /\ meta \in -1..NumAvatars
    /\ InitCacheProcess
    /\ InitNoChunks
    /\ InitNoFull

SpecLookup == InitLookup /\ [][NextCache]_vars

NextCrash == NextCache \/ CacheCrash

SpecCrash == InitCache /\ [][NextCrash]_vars

(* ------------------- a store whose write fails (I/O error) --------------- *)
\* What the store does when shutil.copy2, write_text or json.dump raises:
\* nothing catches the exception, it leaves the function.
WriteErrorSwallowed(v) == "skip"
WriteErrorHandling(v) == "raise"

\* The write of the current store step raises OSError and leaves its file as
\* it was (the metadata possibly truncated by an earlier open).
CacheStoreFail ==
    /\ cpc = "store"
    /\ LET a == creq.avatar
           last == cstep = Len(StoreOrder(variant))
       IN IF WriteErrorHandling(variant) = "raise"
            THEN /\ cpc' = "idle"
                 /\ cstep' = 0
                 /\ cret' = Artifact(a, 0, 0, 0, "ioerror")
                 /\ UNCHANGED <<mem_avatar, mem_face, everStored>>
            ELSE IF last
              THEN /\ mem_avatar' = a
                   /\ mem_face' = a
                   /\ cret' = Artifact(a, coeff, crop, a, "fresh")
                   /\ everStored' = everStored \cup {a}
                   /\ cpc' = "idle"
                   /\ cstep' = 0
              ELSE /\ cstep' = cstep + 1
                   /\ UNCHANGED <<mem_avatar, mem_face, cret, everStored, cpc>>
    /\ UNCHANGED <<variant, coeff, crop, meta, creq, crashed>>
    /\ UNCHANGED <<loadVars, supVars, chunkVars, fullVars>>

NextStoreFail == NextCache \/ CacheStoreFail

SpecStoreFail == InitCache /\ [][NextStoreFail]_vars

(* ------------- the manager against a worker that may misbehave ---------- *)
\* What may come out of a worker's stdout, whatever was asked: the ready
\* line, an ok or an error response, and a line that is not JSON (a library
\* of the worker printing to stdout).
StubLines ==
    {Resp("ready", "none", 0, FALSE), Resp("ok", "generate", 0, FALSE),
     Resp("error", "none", 0, FALSE), Resp("garbage", "none", 0, FALSE)}

\* The worker writes a line, at any time and unasked.
Emit(r) ==
    /\ Alive
    /\ fed < MaxLines
    /\ fed' = fed + 1
    /\ stdout' = Append(stdout, r)
    /\ UNCHANGED <<mgrVars, thrVars, wpc, stdin, face_cache, wcmd, errfree,
                   calls, spawned, wire, wireSkew, analysed, analysedEver, pending>>
    /\ UNCHANGED <<shaken, lost>>
    /\ UNCHANGED <<cacheVars, chunkVars, fullVars, loadVars>>

\* The manager's threads, a worker that writes what it likes or nothing at
\* all, and the death of the worker.
NextStub ==
    \/ \E t \in Threads : Manager(t)
    \/ \E r \in StubLines : Emit(r)
    \/ WorkerDie

SpecStub == Init /\ [][NextStub]_vars

(* ------------------------------ chunk_audio ------------------------------ *)
\* OptimizedSadTalkerPipeline.chunk_audio. Durations are kept exact: a
\* duration of f frames at framerate r is f / r seconds, and the chunk limit
\* of MaxChunkSec seconds is MaxChunkSec * r frames.
MaxChunkSec == 3     \* PipelineConfig.max_chunk_duration_sec
MaxFrames == 20      \* longest input, in frames
MaxRate == 2         \* largest framerate

\* AudioChunk(index, audio_path, duration_sec); audio_path 0 is the input
\* file itself, i + 1 is chunk_{i:03d}.wav.
AudioChunk(index, audio_path, frames) ==
    [index |-> index, audio_path |-> audio_path, frames |-> frames]

\* chunk_duration in frames
ChunkFrames(r) == MaxChunkSec * r

\* A chunk count taken as int(duration / chunk_duration) + 1.
NumChunksFloorPlusOne(f, r) == (f \div ChunkFrames(r)) + 1

\* int(np.ceil(duration / chunk_duration))
NumChunks(f, r) == (f + ChunkFrames(r) - 1) \div ChunkFrames(r)

\* A chunk end that is not clipped to the input's duration.
MinUnclipped(x, y) == x

Min(x, y) == IF x <= y THEN x ELSE y

\* A WAV file of any length, empty included, is handed to chunk_audio.
InitChunks ==
    /\ a_frames \in 0..MaxFrames
    /\ a_rate \in 1..MaxRate
    /\ chunks = <<>> /\ cfiles = {}
    /\ apc = "open" /\ ci = 0

\* The header is read; a short input is returned as it is.
ChunkOpen ==
    /\ apc = "open"
    /\ IF a_frames <= ChunkFrames(a_rate)
         THEN /\ chunks' = <<AudioChunk(0, 0, a_frames)>>
              /\ apc' = "done"
         ELSE /\ chunks' = <<>>
              /\ apc' = "split"
    /\ UNCHANGED <<a_frames, a_rate, cfiles, ci>>
    /\ UNCHANGED <<loadVars, supVars, cacheVars, fullVars>>

\* One turn of the loop: ffmpeg cuts chunk ci out of the input, or fails
\* (check=True raises CalledProcessError).
ChunkSplit ==
    /\ apc = "split"
    /\ IF ci < NumChunks(a_frames, a_rate)
         THEN LET chunk_start == ci * ChunkFrames(a_rate)
                  chunk_end == Min((ci + 1) * ChunkFrames(a_rate), a_frames)
                  actual_duration == chunk_end - chunk_start
              IN \E ok \in BOOLEAN :
                   IF ok
                     THEN /\ cfiles' = cfiles \cup
                               {[index |-> ci, start |-> chunk_start, frames |-> actual_duration]}
                          /\ chunks' = Append(chunks, AudioChunk(ci, ci + 1, actual_duration))
                          /\ ci' = ci + 1
                          /\ apc' = apc
                     ELSE /\ apc' = "raised"
                          /\ UNCHANGED <<cfiles, chunks, ci>>
         ELSE /\ apc' = "done"
              /\ UNCHANGED <<cfiles, chunks, ci>>
    /\ UNCHANGED <<a_frames, a_rate>>
    /\ UNCHANGED <<loadVars, supVars, cacheVars, fullVars>>

InitChunk ==
    /\ InitSup /\ InitNoLoad /\ variant = "pipe" /\ InitDiskEmpty /\ InitCacheProcess
    /\ InitChunks /\ InitNoFull

NextChunk == ChunkOpen \/ ChunkSplit

SpecChunk == InitChunk /\ [][NextChunk]_vars

(* ------------------------------ generate_full ---------------------------- *)
\* OptimizedSadTalkerPipeline.generate_full with generate_video_chunk,
\* encode_video_async and _concatenate_videos.

\* VideoChunk(index, video_path, ...); the video of chunk i is the file the
\* renderer left in chunk_{i:03d}/.
VideoChunk(index) == [index |-> index, video_path |-> index + 1]

Event(ev, index) == [ev |-> ev, index |-> index]

\* The element the k-th turn of "for chunk in chunks" works on, taken from
\* the end of the list.
ChunkAtReversed(list, k) == list[Len(list) + 1 - k]

\* The element the k-th turn of "for chunk in chunks" works on.
ChunkAt(list, k) == list[k]

\* A failed encoding is skipped and the loop goes on.
EncodeErrorSkipped(o) == "skip"

\* What happens when the ffmpeg run of encode_video_async fails:
\* check=True raises CalledProcessError and nothing catches it.
EncodeErrorHandling(o) == "raise"

\* The concatenation is run for a single file too.
NeedsConcatAlways(paths) == TRUE

\* if len(encoded_paths) == 1: final_path = encoded_paths[0]
NeedsConcat(paths) == Len(paths) # 1

\* generate_full(audio_path, avatar_path) is called on a pipeline that has
\* not precomputed a face in this process; precompute_dir is empty or holds
\* the entry an earlier run left for some avatar.
InitFull ==
    /\ InitSup /\ InitNoLoad
    /\ variant = "pipe"
    /\ \E a \in 0..NumAvatars : coeff = a /\ crop = a /\ meta = a
    /\ InitCacheProcess
    /\ a_frames \in 0..MaxFrames
    /\ a_rate \in 1..MaxRate
    /\ chunks = <<>> /\ cfiles = {}
    /\ apc = "none" /\ ci = 0
    /\ gpc = "entry"
    /\ g_avatar \in 0..NumAvatars
    /\ video_chunks = <<>> /\ encoded_paths = <<>> /\ concat_list = <<>>
    /\ gret = NoPath /\ glog = <<>>

\* Lines 514-519: the avatar is settled and precompute_face(avatar) is
\* called, without force.
FullEnter(avatar_path) ==
    /\ gpc = "entry"
    /\ LET a == IF avatar_path # 0 THEN avatar_path ELSE g_avatar IN
       /\ g_avatar' = a
       /\ IF a = 0
            THEN /\ gpc' = "raised"
                 /\ UNCHANGED <<creq, cret, cpc, glog>>
            ELSE /\ cpc = "idle"
                 /\ creq' = Request(a, FALSE, "direct")
                 /\ cret' = NoArtifact
                 /\ cpc' = "lookup"
                 /\ glog' = Append(glog, Event("precompute", a))
                 /\ gpc' = "precompute"
    /\ UNCHANGED <<variant, coeff, crop, meta, mem_avatar, mem_face, cstep,
                   crashed, everStored>>
    /\ UNCHANGED <<video_chunks, encoded_paths, concat_list, gret>>
    /\ UNCHANGED <<loadVars, supVars, chunkVars>>

\* precompute_face has returned or raised; line 522 calls chunk_audio.
FullPrecomputed ==
    /\ gpc = "precompute"
    /\ cpc = "idle"
    /\ IF cret.src = "error"
         THEN gpc' = "raised" /\ apc' = apc
         ELSE gpc' = "chunk" /\ apc' = "open"
    /\ UNCHANGED <<a_frames, a_rate, chunks, cfiles, ci>>
    /\ UNCHANGED <<g_avatar, video_chunks, encoded_paths, concat_list, gret, glog>>
    /\ UNCHANGED <<loadVars, supVars, cacheVars>>

\* chunk_audio has returned or raised.
FullChunked ==
    /\ gpc = "chunk"
    /\ apc \in {"done", "raised"}
    /\ gpc' = IF apc = "done" THEN "gen" ELSE "raised"
    /\ UNCHANGED <<g_avatar, video_chunks, encoded_paths, concat_list, gret, glog>>
    /\ UNCHANGED <<loadVars, supVars, cacheVars, chunkVars>>

\* Lines 527-528 and 399-402: the next turn of the first loop enters
\* generate_video_chunk, or the loop is over.
FullGenStart ==
    /\ gpc = "gen"
    /\ LET k == Len(video_chunks) + 1 IN
       IF k <= Len(chunks)
         THEN IF mem_face = 0
                THEN gpc' = "raised" /\ glog' = glog
                ELSE /\ gpc' = "genrun"
                     /\ glog' = Append(glog, Event("gen_start", ChunkAt(chunks, k).index))
         ELSE gpc' = "encode" /\ glog' = glog
    /\ UNCHANGED <<g_avatar, video_chunks, encoded_paths, concat_list, gret>>
    /\ UNCHANGED <<loadVars, supVars, cacheVars, chunkVars>>

\* Lines 404-474 and 529: the models render the chunk, or no video comes out
\* of it and generate_video_chunk raises.
FullGenEnd ==
    /\ gpc = "genrun"
    /\ LET k == Len(video_chunks) + 1
           i == ChunkAt(chunks, k).index
       IN \E ok \in BOOLEAN :
            IF ok
              THEN /\ video_chunks' = Append(video_chunks, VideoChunk(i))
                   /\ glog' = Append(glog, Event("gen_end", i))
                   /\ gpc' = "gen"
              ELSE /\ video_chunks' = video_chunks
                   /\ glog' = Append(glog, Event("gen_fail", i))
                   /\ gpc' = "raised"
    /\ UNCHANGED <<g_avatar, encoded_paths, concat_list, gret>>
    /\ UNCHANGED <<loadVars, supVars, cacheVars, chunkVars>>

\* Lines 533-546 and 476-499: one turn of the second loop, or the loop is
\* over and a single encoded file is returned as it is.
FullEncode ==
    /\ gpc = "encode"
    /\ LET k == Len(encoded_paths) + 1 IN
       IF k <= Len(video_chunks)
         THEN LET vc == ChunkAt(video_chunks, k) IN
              \E ok \in BOOLEAN :
                IF ok
                  THEN /\ encoded_paths' = Append(encoded_paths, OutPath("encoded", vc.index))
                       /\ glog' = Append(glog, Event("encode", vc.index))
                       /\ UNCHANGED <<gpc, gret>>
                  ELSE /\ glog' = Append(glog, Event("encode_fail", vc.index))
                       /\ IF EncodeErrorHandling(vc) = "raise"
                            THEN /\ gpc' = "raised"
                                 /\ UNCHANGED <<encoded_paths, gret>>
                            ELSE /\ encoded_paths' =
                                      Append(encoded_paths, OutPath("missing", vc.index))
                                 /\ UNCHANGED <<gpc, gret>>
         ELSE /\ IF NeedsConcat(encoded_paths)
                   THEN gpc' = "concat" /\ gret' = gret
                   ELSE gpc' = "returned" /\ gret' = encoded_paths[1]
              /\ UNCHANGED <<encoded_paths, glog>>
    /\ UNCHANGED <<g_avatar, video_chunks, concat_list>>
    /\ UNCHANGED <<loadVars, supVars, cacheVars, chunkVars>>

\* _concatenate_videos: concat_list.txt is written, ffmpeg joins the files
\* into final_output.mp4 or fails.
FullConcat ==
    /\ gpc = "concat"
    /\ concat_list' = encoded_paths
    /\ \E ok \in BOOLEAN :
         IF ok
           THEN /\ glog' = Append(glog, Event("concat", 0))
                /\ gret' = OutPath("final", 0)
                /\ gpc' = "returned"
           ELSE /\ glog' = Append(glog, Event("concat_fail", 0))
                /\ gret' = gret
                /\ gpc' = "raised"
    /\ UNCHANGED <<g_avatar, video_chunks, encoded_paths>>
    /\ UNCHANGED <<loadVars, supVars, cacheVars, chunkVars>>

NextFull ==
    \/ \E p \in 0..NumAvatars : FullEnter(p)
    \/ CacheLookup
    \/ CacheAnalyse
    \/ CacheStore
    \/ FullPrecomputed
    \/ ChunkOpen
    \/ ChunkSplit
    \/ FullChunked
    \/ FullGenStart
    \/ FullGenEnd
    \/ FullEncode
    \/ FullConcat

SpecFull == InitFull /\ [][NextFull]_vars

(* ------------------- load_models of a pipeline object ------------------ *)
\* The three implementations: OptimizedSadTalkerPipeline.load_models,
\* OptimizedPipeline._load_models and SadTalkerPipeline.load_models.
LoadVariants == {"pipe", "app", "preloaded"}

\* Only optimized_pipeline.py sets the flag before its warm-up.
FlagBeforeWarmup(v) == v = "pipe"

SecondTestMissing(flag) == FALSE

\* "if self._models_loaded: return" repeated under the lock.
SecondTest(flag) == flag

\* A thread leaves the pipeline object with result r; a "with" block that
\* it is in releases the lock on the way out.
PlReturn(t, r, held) ==
    /\ pl_pc' = [pl_pc EXCEPT ![t] = "idle"]
    /\ pl_ret' = [pl_ret EXCEPT ![t] = r]
    /\ model_lock' = IF held THEN 0 ELSE model_lock

LoadCall(t) ==
    /\ pl_pc[t] = "idle" /\ pl_calls < MaxRequests
    /\ pl_pc' = [pl_pc EXCEPT ![t] = "l_test"]
    /\ pl_op' = [pl_op EXCEPT ![t] = Op("load", 0)]
    /\ pl_ret' = [pl_ret EXCEPT ![t] = "none"]
    /\ pl_calls' = pl_calls + 1
    /\ UNCHANGED <<models_loaded, model_lock, models, pl_cache, pl_step, loads, raised>>
    /\ UNCHANGED <<supVars, cacheVars, chunkVars, fullVars>>

\* The test before the lock.
LoadTest(t) ==
    /\ pl_pc[t] = "l_test"
    /\ IF models_loaded
         THEN PlReturn(t, "returned", FALSE)
         ELSE /\ pl_pc' = [pl_pc EXCEPT ![t] = "l_lock"]
              /\ UNCHANGED <<pl_ret, model_lock>>
    /\ UNCHANGED <<models_loaded, models, pl_cache, pl_op, pl_step, loads, raised, pl_calls>>
    /\ UNCHANGED <<supVars, cacheVars, chunkVars, fullVars>>

\* "with self._model_lock:" waits until the lock is free.
LoadAcquire(t) ==
    /\ pl_pc[t] = "l_lock" /\ model_lock = 0
    /\ model_lock' = t
    /\ pl_pc' = [pl_pc EXCEPT ![t] = "l_test2"]
    /\ UNCHANGED <<models_loaded, models, pl_cache, pl_op, pl_ret, pl_step, loads, raised,
                   pl_calls>>
    /\ UNCHANGED <<supVars, cacheVars, chunkVars, fullVars>>

LoadTest2(t) ==
    /\ pl_pc[t] = "l_test2"
    /\ IF SecondTest(models_loaded)
         THEN /\ PlReturn(t, "returned", TRUE)
              /\ UNCHANGED <<pl_step, loads>>
         ELSE /\ pl_pc' = [pl_pc EXCEPT ![t] = "l_load"]
              /\ pl_step' = [pl_step EXCEPT ![t] = 0]
              /\ loads' = loads + 1
              /\ UNCHANGED <<pl_ret, model_lock>>
    /\ UNCHANGED <<models_loaded, models, pl_cache, pl_op, raised, pl_calls>>
    /\ UNCHANGED <<supVars, cacheVars, chunkVars, fullVars>>

\* One of the three model objects is constructed and assigned, or its
\* constructor raises and the exception leaves load_models.
LoadModel(t) ==
    /\ pl_pc[t] = "l_load" /\ pl_step[t] < NumModels
    /\ \E ok \in BOOLEAN :
         IF ok
           THEN /\ pl_step' = [pl_step EXCEPT ![t] = @ + 1]
                /\ models' = IF models > pl_step[t] THEN models ELSE pl_step[t] + 1
                /\ UNCHANGED <<pl_pc, pl_ret, model_lock, raised>>
           ELSE /\ PlReturn(t, "raised", TRUE)
                /\ raised' = raised + 1
                /\ UNCHANGED <<pl_step, models>>
    /\ UNCHANGED <<models_loaded, pl_cache, pl_op, loads, pl_calls>>
    /\ UNCHANGED <<supVars, cacheVars, chunkVars, fullVars>>

\* The flag is set: last in app_optimized.py and app_preloaded.py, before
\* the warm-up in optimized_pipeline.py.
LoadFlag(t) ==
    /\ pl_pc[t] = "l_load" /\ pl_step[t] = NumModels
    /\ models_loaded' = TRUE
    /\ IF FlagBeforeWarmup(variant)
         THEN /\ pl_pc' = [pl_pc EXCEPT ![t] = "l_warm"]
              /\ UNCHANGED <<pl_ret, model_lock>>
         ELSE PlReturn(t, "returned", TRUE)
    /\ UNCHANGED <<models, pl_cache, pl_op, pl_step, loads, raised, pl_calls>>
    /\ UNCHANGED <<supVars, cacheVars, chunkVars, fullVars>>

\* self._warmup() of optimized_pipeline.py, still under the lock.
LoadWarm(t) ==
    /\ pl_pc[t] = "l_warm"
    /\ PlReturn(t, "returned", TRUE)
    /\ UNCHANGED <<models_loaded, models, pl_cache, pl_op, pl_step, loads, raised, pl_calls>>
    /\ UNCHANGED <<supVars, cacheVars, chunkVars, fullVars>>

InitLoad ==
    /\ InitSup /\ InitNoLoad
    /\ variant \in LoadVariants /\ InitDiskEmpty /\ InitCacheProcess
    /\ InitNoChunks /\ InitNoFull

NextLoad ==
    \E t \in Threads :
        \/ LoadCall(t) \/ LoadTest(t) \/ LoadAcquire(t) \/ LoadTest2(t)
        \/ LoadModel(t) \/ LoadFlag(t) \/ LoadWarm(t)

SpecLoad == InitLoad /\ [][NextLoad]_vars

(* --------------- the preloaded server's request threads ---------------- *)
\* app.run(threaded=True): a thread takes a POST /generate or /precompute
\* for the avatar the configuration names at that moment.
PreCall(t) ==
    /\ pl_pc[t] = "idle" /\ pl_calls < MaxRequests
    /\ \E k \in {"generate", "precompute"}, a \in Avatars :
         pl_op' = [pl_op EXCEPT ![t] = Op(k, a)]
    /\ pl_pc' = [pl_pc EXCEPT ![t] = "r_test"]
    /\ pl_ret' = [pl_ret EXCEPT ![t] = "none"]
    /\ pl_calls' = pl_calls + 1
    /\ UNCHANGED <<models_loaded, model_lock, models, pl_cache, pl_step, loads, raised>>
    /\ UNCHANGED <<supVars, cacheVars, chunkVars, fullVars>>

\* Both routes answer 503 while the models are not loaded; /generate goes
\* on to pipeline.generate(), /precompute to pipeline.precompute_face().
PreTest(t) ==
    /\ pl_pc[t] = "r_test"
    /\ IF ~models_loaded
         THEN PlReturn(t, "503", FALSE)
         ELSE /\ pl_pc' = [pl_pc EXCEPT ![t] =
                     IF pl_op[t].kind = "generate" THEN "g_lock" ELSE "p_face"]
              /\ UNCHANGED <<pl_ret, model_lock>>
    /\ UNCHANGED <<models_loaded, models, pl_cache, pl_op, pl_step, loads, raised, pl_calls>>
    /\ UNCHANGED <<supVars, cacheVars, chunkVars, fullVars>>

\* generate(): "with self._lock:", then _generate_impl calls precompute_face.
GenAcquire(t) ==
    /\ pl_pc[t] = "g_lock" /\ model_lock = 0
    /\ model_lock' = t
    /\ pl_pc' = [pl_pc EXCEPT ![t] = "g_face"]
    /\ UNCHANGED <<models_loaded, models, pl_cache, pl_op, pl_ret, pl_step, loads, raised,
                   pl_calls>>
    /\ UNCHANGED <<supVars, cacheVars, chunkVars, fullVars>>

\* The thread is inside generate(), past the lock.
InGenerate(t) == pl_pc[t] \in {"g_face", "g_analyse", "g_render"}

\* The thread is inside precompute_face() called by the /precompute route.
InPrecompute(t) == pl_pc[t] \in {"p_face", "p_analyse"}

\* precompute_face(): "if avatar_path in self.face_cache: return"; it takes
\* no lock of its own.
FaceLookup(t) ==
    /\ pl_pc[t] \in {"g_face", "p_face"}
    /\ IF pl_op[t].avatar \in pl_cache
         THEN IF InGenerate(t)
                THEN /\ pl_pc' = [pl_pc EXCEPT ![t] = "g_render"]
                     /\ UNCHANGED <<pl_ret, model_lock>>
                ELSE PlReturn(t, "ok", FALSE)
         ELSE /\ pl_pc' = [pl_pc EXCEPT ![t] =
                     IF InGenerate(t) THEN "g_analyse" ELSE "p_analyse"]
              /\ UNCHANGED <<pl_ret, model_lock>>
    /\ UNCHANGED <<models_loaded, models, pl_cache, pl_op, pl_step, loads, raised, pl_calls>>
    /\ UNCHANGED <<supVars, cacheVars, chunkVars, fullVars>>

\* preprocess_model.generate() has run: the result is stored in face_cache,
\* or RuntimeError leaves precompute_face (and generate(), releasing the lock).
FaceAnalysed(t) ==
    /\ pl_pc[t] \in {"g_analyse", "p_analyse"}
    /\ \E ok \in BOOLEAN :
         IF ok
           THEN /\ pl_cache' = pl_cache \cup {pl_op[t].avatar}
                /\ IF InGenerate(t)
                     THEN /\ pl_pc' = [pl_pc EXCEPT ![t] = "g_render"]
                          /\ UNCHANGED <<pl_ret, model_lock>>
                     ELSE PlReturn(t, "ok", FALSE)
           ELSE /\ PlReturn(t, "error", InGenerate(t))
                /\ UNCHANGED pl_cache
    /\ UNCHANGED <<models_loaded, models, pl_op, pl_step, loads, raised, pl_calls>>
    /\ UNCHANGED <<supVars, cacheVars, chunkVars, fullVars>>

\* audio_to_coeff.generate() and animate_from_coeff.generate() have run;
\* generate() returns or raises, and the "with" block releases the lock.
GenRendered(t) ==
    /\ pl_pc[t] = "g_render"
    /\ \E r \in {"ok", "error"} : PlReturn(t, r, TRUE)
    /\ UNCHANGED <<models_loaded, models, pl_cache, pl_op, pl_step, loads, raised, pl_calls>>
    /\ UNCHANGED <<supVars, cacheVars, chunkVars, fullVars>>

\* The server after its startup block: the models are loaded, and the
\* configured avatar is cached unless its analysis failed or none was set.
InitPre ==
    /\ InitSup
    /\ variant = "preloaded" /\ InitDiskEmpty /\ InitCacheProcess
    /\ InitNoChunks /\ InitNoFull
    /\ models_loaded = TRUE /\ model_lock = 0 /\ models = NumModels
    /\ pl_cache \in {{}, {1}}
    /\ pl_pc = [t \in Threads |-> "idle"]
    /\ pl_op = [t \in Threads |-> NoOp]
    /\ pl_ret = [t \in Threads |-> "none"]
    /\ pl_step = [t \in Threads |-> 0]
    /\ loads = 1 /\ raised = 0 /\ pl_calls = 0

NextPre ==
    \E t \in Threads :
        \/ PreCall(t) \/ PreTest(t) \/ GenAcquire(t)
        \/ FaceLookup(t) \/ FaceAnalysed(t) \/ GenRendered(t)

SpecPre == InitPre /\ [][NextPre]_vars

(* ------------------------------ properties ------------------------------ *)

\* C1: at most one command is in flight: no thread writes a command line
\* while another thread has written one and not yet read its response line.
C1_SingleFlight == Cardinality({t \in Threads : pc[t] = "recv"}) <= 1

\* C2: a generate or precompute call that finds the worker it holds dead
\* starts a new worker instead of failing with "Worker not running".
C2_LazyRestart ==
    [][\A t \in Threads :
         (/\ pc[t] = "check"
          /\ op[t].kind \in {"generate", "precompute"}
          /\ process # 0 /\ ~Alive)
         => ret'[t] # "not_running"]_vars

\* C3: the worker has read exactly as many non-blank lines as it has written
\* responses, plus the one line whose handler is still running (or is held
\* in a write to stderr): no line is read before the previous one is answered.
C3_OneResponsePerLine ==
    pending = IF wpc \in {"analysing", "render", "blocked"} THEN 1 ELSE 0

\* C3 witness: a blank line, a line that is no command object and a command
\* with an unknown action have all been consumed; two responses followed the
\* ready line.
C3_Witness ==
    /\ wpc = "loop" /\ fed = MaxLines /\ stdin = <<>>
    /\ Len(stdout) = fed
    /\ \E i \in 1..Len(stdout) : stdout[i].status = "error" /\ stdout[i].action = "none"
    /\ \E i \in 1..Len(stdout) : stdout[i].status = "error" /\ stdout[i].action = "bogus"

C5_OneAnalysisEver == \A a \in Avatars : analysedEver[a] <= 1

\* C6: the commands on the wire are those of the methods called, action for
\* action (generate() writes no precompute command), and the worker analyses
\* only an avatar that is not in its cache.
C6_GenerateSendsNoPrecompute ==
    /\ \A k \in Actions : wireSkew[k] = 0
    /\ wpc = "analysing" => wcmd.avatar \notin face_cache

\* C6 witness: one precompute and two generates for one avatar have been
\* answered by one worker, which analysed the avatar once.
C6_Witness ==
    \E a \in Avatars :
      /\ wire["precompute"][a] = 1 /\ wire["generate"][a] = 2
      /\ analysed[a] = 1 /\ face_precomputed
      /\ wpc = "loop" /\ stdin = <<>> /\ stdout = <<>>
      /\ \A t \in Threads : pc[t] = "idle"
      /\ ret[1] = "ok"

C8_DiskHitOnlyIfEntryValid ==
    [][(cpc = "lookup"
          /\ ~(variant = "app" /\ mem_avatar = creq.avatar /\ mem_face # 0))
       => IF ~creq.force /\ meta = creq.avatar /\ coeff # 0 /\ crop # 0
            THEN cpc' = "idle" /\ cret'.src = "disk"
            ELSE cpc' = "analyse"]_vars

\* C8 witness: the metadata names the requested avatar, an artifact file is
\* missing, and the lookup has gone on to the analysis.
C8_Witness ==
    /\ cpc = "analyse" /\ ~creq.force
    /\ meta = creq.avatar
    /\ coeff = 0 \/ crop = 0

C10_HitReturnsOneSubject ==
    cret.src = "disk" =>
      /\ cret.coeff = cret.subject
      /\ cret.crop = cret.subject
      /\ cret.info = cret.subject

C12_ErrorIsRecoverable ==
    [][/\ \A t \in Threads :
            (/\ pc[t] = "recv" /\ pc'[t] = "idle"
             /\ op[t].kind \in {"precompute", "generate"}
             /\ stdout # <<>> /\ Head(stdout).status = "error")
            => /\ ret'[t] = "error"
               /\ \A u \in Threads \ {t} : ret'[u] = ret[u] /\ pc'[u] = pc[u]
               /\ UNCHANGED <<process, ready, lock, face_precomputed, wpc, stdin, face_cache>>
       /\ (Len(stdout') = Len(stdout) + 1 /\ stdout'[Len(stdout')].status = "error")
            => /\ wpc' = "loop" /\ face_cache' = face_cache
               /\ stdin' = stdin \/ (stdin # <<>> /\ stdin' = Tail(stdin))
      ]_vars

\* C12 witness: precompute of one avatar was answered with an error (its
\* analysis did not succeed), then precompute of another avatar was sent to
\* the same worker by the same thread and answered ok.
C12_Witness ==
    \E a, b \in Avatars :
      /\ a # b
      /\ wire["precompute"][a] = 1 /\ analysed[a] = 0
      /\ wire["precompute"][b] = 1 /\ analysed[b] = 1
      /\ \A t \in Threads : pc[t] = "idle"
      /\ ret[1] = "ok" /\ ret[2] = "none"
      /\ ready /\ Running /\ wpc = "loop" /\ stdin = <<>> /\ stdout = <<>>

\* C13: once a call has read end of file from the worker, is_ready is false
\* until a start() has read a ready line again.
C13_NotReadyAfterLoss == lost => ~IsReady

\* C14: a start() whose handshake read gets anything but the ready line
\* returns False, leaves is_ready false and leaves no live process in
\* self.process.
C14_FailedStartLeavesNothing ==
    [][\A t \in Threads :
         (pc[t] = "s_hand" /\ pc'[t] = "idle" /\ ~HandshakeOk)
         => (ret'[t] = "false" /\ ~IsReady' /\ ~Running')]_vars

\* C15: a command line is written to a worker only after the manager has
\* read that worker's ready line.
C15_WriteOnlyWhenReady ==
    [][Len(stdin') > Len(stdin) => shaken]_vars

\* C16: a thread that waits for the handshake line or for a response line is
\* never at the mercy of the worker: in every state its wait is able to end,
\* with a line, with end of file or by itself.
C16_WaitCanEnd ==
    \A t \in Threads :
      /\ pc[t] = "recv" => ENABLED SendRecv(t)
      /\ pc[t] = "s_hand" => ENABLED StartHandshake(t)

\* C17: a stop() that holds the lock can always go on to terminate the
\* worker: none of its steps waits for the worker.
C17_StopCanProceed ==
    \A t \in Threads :
      (op[t].kind = "stop" /\ pc[t] \in {"check", "write", "recv", "q_term"})
      => ENABLED Manager(t)

\* C18: the first line the worker writes is the ready line and no later line
\* is; until it has written it the worker has read nothing; a bye line is the
\* last line the worker writes, and the worker has then left its loop.
C18_ReadyFirstByeLast ==
    /\ wpc = "init" => (stdout = <<>> /\ Len(stdin) = fed)
    /\ wpc \in {"loop", "analysing", "render"} => stdout # <<>>
    /\ stdout # <<>> => stdout[1].status = "ready"
    /\ \A i \in 2..Len(stdout) : stdout[i].status # "ready"
    /\ \A i \in 1..Len(stdout) :
         stdout[i].status = "bye" => (i = Len(stdout) /\ wpc = "exited")

\* C18 witness: the worker answered quit and ended with two commands that
\* came after quit still unread and unanswered.
C18_Witness ==
    /\ wpc = "exited"
    /\ Len(stdout) = 2 /\ stdout[2].status = "bye"
    /\ Len(stdin) = 2 /\ stdin[1].action = "generate" /\ stdin[2].action = "precompute"
    /\ analysedEver = NoneAnalysed

\* C19: is_ready is true exactly when the process the manager holds is alive
\* and the manager has read the ready line of that same process.
C19_ReadyIffHandshaken == IsReady <=> (Running /\ shaken)

\* C20: for an input no longer than the chunk limit chunk_audio returns one
\* chunk, with index 0, the input file itself and the whole duration, which
\* is not zero, and writes no chunk file.
C20_ShortInputOneChunk ==
    (apc = "done" /\ a_frames <= MaxChunkSec * a_rate)
    => /\ Len(chunks) = 1
       /\ chunks[1].index = 0
       /\ chunks[1].audio_path = 0
       /\ chunks[1].frames = a_frames
       /\ cfiles = {}
       /\ chunks[1].frames > 0

\* C21: for an input longer than the chunk limit M, chunk_audio returns
\* exactly ceil(D / M) chunks, indexed 0..N-1 in list order, each of a
\* duration above zero and at most M, and only the last one may be shorter
\* than M.
C21_LongInputCeilChunks ==
    (apc = "done" /\ a_frames > MaxChunkSec * a_rate)
    => LET M == MaxChunkSec * a_rate
           N == Len(chunks)
       IN /\ N * M >= a_frames
          /\ (N - 1) * M < a_frames
          /\ \A i \in 1..N :
               /\ chunks[i].index = i - 1
               /\ chunks[i].frames > 0
               /\ chunks[i].frames <= M
               /\ (i < N => chunks[i].frames = M)

\* An input of 7 seconds is split into chunks of 3, 3 and 1 seconds.
C21_Witness ==
    /\ apc = "done" /\ a_frames = 7 /\ a_rate = 1
    /\ Len(chunks) = 3
    /\ <<chunks[1].frames, chunks[2].frames, chunks[3].frames>> = <<3, 3, 1>>
    /\ <<chunks[1].index, chunks[2].index, chunks[3].index>> = <<0, 1, 2>>

\* C22: the chunks of a long input are contiguous and do not overlap: the
\* first one starts at 0, each other one starts where the one before it
\* ends, and the last one ends at the input's duration, so that the
\* durations add up to the input's duration.
C22_ChunksContiguous ==
    (apc = "done" /\ a_frames > MaxChunkSec * a_rate)
    => LET N == Len(chunks)
           File(i) == CHOOSE f \in cfiles : f.index = chunks[i].index
       IN /\ N >= 1
          /\ \A i \in 1..N :
               /\ \E f \in cfiles : f.index = chunks[i].index
               /\ File(i).frames = chunks[i].frames
               /\ File(i).start = IF i = 1 THEN 0
                                  ELSE File(i - 1).start + chunks[i - 1].frames
          /\ File(N).start + chunks[N].frames = a_frames

\* 13 frames at 2 frames a second: [0, 6), [6, 12), [12, 13).
C22_Witness ==
    /\ apc = "done" /\ a_frames = 13 /\ a_rate = 2
    /\ cfiles = {[index |-> 0, start |-> 0, frames |-> 6],
                 [index |-> 1, start |-> 6, frames |-> 6],
                 [index |-> 2, start |-> 12, frames |-> 1]}

\* C23: generate_full calls precompute_face once, before the chunk loop and
\* never inside it; the chunks are generated one at a time in increasing
\* index order, chunk i + 1 is not started before chunk i has finished, and
\* a run that returns has generated every chunk exactly once.
C23_PrecomputeOnceThenInOrder ==
    LET Pos(e) == {j \in 1..Len(glog) : glog[j].ev = e}
        starts == Pos("gen_start")
    IN /\ Pos("precompute") \subseteq {1}
       /\ \A j \in starts :
            /\ Pos("precompute") = {1}
            /\ glog[j].index = Cardinality({h \in starts : h < j})
            /\ j < Len(glog) => /\ glog[j + 1].ev \in {"gen_end", "gen_fail"}
                                /\ glog[j + 1].index = glog[j].index
            /\ \A h \in starts : h < j => glog[h + 1].ev = "gen_end"
       /\ gpc = "returned"
            => \A c \in 1..Len(chunks) :
                 Cardinality({j \in starts : glog[j].index = chunks[c].index}) = 1

\* A run over three chunks has returned.
C23_Witness ==
    /\ gpc = "returned" /\ Len(chunks) = 3
    /\ SubSeq(glog, 1, 7) = <<Event("precompute", g_avatar),
                              Event("gen_start", 0), Event("gen_end", 0),
                              Event("gen_start", 1), Event("gen_end", 1),
                              Event("gen_start", 2), Event("gen_end", 2)>>

\* C24: when the generation or the encoding of a chunk fails, generate_full
\* raises: nothing is generated, encoded or concatenated after the failure,
\* the chunks after one whose generation failed are never generated, and no
\* output path is returned.
C24_ChunkFailureAborts ==
    \A j \in 1..Len(glog) :
      glog[j].ev \in {"gen_fail", "encode_fail"}
      => /\ j = Len(glog)
         /\ gpc = "raised"
         /\ gret = NoPath
         /\ concat_list = <<>>
         /\ glog[j].ev = "gen_fail"
              => /\ encoded_paths = <<>>
                 /\ {video_chunks[k].index : k \in 1..Len(video_chunks)}
                      = 0..(glog[j].index - 1)

\* The generation of the second of three chunks has failed.
C24_Witness ==
    /\ Len(chunks) = 3
    /\ glog # <<>>
    /\ glog[Len(glog)] = Event("gen_fail", 1)
    /\ Len(video_chunks) = 1

\* C25: a run that returns has concatenated the encoded files of the chunks
\* in index order, each once, and returns the one joined file; with a
\* single chunk nothing is concatenated and the encoded file of that chunk
\* is returned.
C25_ConcatInIndexOrder ==
    gpc = "returned"
    => LET concats == {j \in 1..Len(glog) : glog[j].ev = "concat"} IN
       IF Len(chunks) = 1
         THEN /\ concats = {}
              /\ concat_list = <<>>
              /\ gret = OutPath("encoded", chunks[1].index)
         ELSE /\ Cardinality(concats) = 1
              /\ concat_list = [i \in 1..Len(chunks) |-> OutPath("encoded", i - 1)]
              /\ gret = OutPath("final", 0)

\* Three encoded files have been joined.
C25_Witness ==
    /\ gpc = "returned"
    /\ concat_list = <<OutPath("encoded", 0), OutPath("encoded", 1), OutPath("encoded", 2)>>
    /\ gret = OutPath("final", 0)

\* C26: a thread of precompute_face or generate that reads a line which is
\* not a JSON object gets an exception for its own call and nothing else
\* changes: the process handle, the ready flag, the lock, the other threads
\* and the worker are as before, exactly that one line is taken off the
\* pipe, and the manager still accepts a command for the same worker.
C26_BadLineFailsOnlyTheCall ==
    [][\A t \in Threads :
         (/\ pc[t] = "recv" /\ pc'[t] = "idle"
          /\ op[t].kind \in {"precompute", "generate"}
          /\ process # 0
          /\ stdout # <<>> /\ Head(stdout).status = "garbage")
         => /\ ret'[t] = "exception"
            /\ \A u \in Threads \ {t} : ret'[u] = ret[u] /\ pc'[u] = pc[u]
            /\ UNCHANGED <<process, ready, lock, face_precomputed, wpc, stdin, spawned>>
            /\ stdout' = Tail(stdout)
            /\ Running' = Running
      ]_vars

\* C26 witness: two generate commands went to the one worker that was ever
\* spawned; the line read for the first was not JSON and that call raised,
\* the other call read an ok response and returned; the worker is alive and
\* the manager is ready.
C26_Witness ==
    /\ spawned = 1 /\ Running /\ ready
    /\ \A t \in Threads : pc[t] = "idle" /\ op[t].kind = "generate"
    /\ ret[1] = "exception" /\ ret[2] = "ok"
    /\ stdout = <<>>

C28_PrecomputeRouteForces ==
    (/\ variant = "app" /\ cpc = "idle"
     /\ creq.route = "precompute" /\ cret.src # "error")
    => cret.src = "fresh"

\* C29: whenever start() returns True, at that moment the worker process is
\* alive and the manager has completed the ready handshake with it
\* (is_ready is true).
C29_StartTrueMeansReady ==
    [][\A t \in Threads :
         (op[t].kind = "start" /\ pc[t] # "idle" /\ pc'[t] = "idle" /\ ret'[t] = "true")
         => IsReady'
      ]_vars

\* C30: the line _send_command returns to a caller is the worker's response
\* to that caller's own command: it answers the action and the avatar the
\* caller wrote, never the command of another thread. (The ready line, which
\* answers no command, is left aside.)
C30_ResponseIsOwn ==
    [][\A t \in Threads :
         (/\ pc[t] = "recv" /\ pc'[t] # "recv"
          /\ process # 0 /\ stdout # <<>>
          /\ Head(stdout).status # "ready")
         => /\ Head(stdout).action = CommandOf(op[t]).action
            /\ Head(stdout).avatar = CommandOf(op[t]).avatar
      ]_vars

\* C31: no caller of _send_command waits for the response of a worker that
\* is stuck writing a diagnostic line to its stderr pipe: the worker never
\* blocks on stderr, so every command it reads is answered and every
\* _send_command returns.
C31_NeverStuckOnStderr ==
    \A t \in Threads : pc[t] = "recv" => wpc # "blocked"

\* C32: the manager's face_precomputed flag is true only for a worker
\* process that holds face data of its own: the process whose handle the
\* manager has was spawned before the flag was set and has itself run a
\* face analysis with success.
C32_FlagMeansThisWorkerHasFace ==
    face_precomputed => (process # 0 /\ \E a \in Avatars : analysed[a] > 0)

\* C33: when the face analysis of a precompute or generate command fails,
\* the worker's _face_cache is as before and holds no entry for that
\* avatar, the worker answers with an error response and goes back to its
\* loop, and the next precompute or generate for the same avatar runs the
\* analysis again.
C33_FailedAnalysisNotCached ==
    [][(/\ wpc = "analysing" /\ wpc' = "loop"
        /\ analysed'[wcmd.avatar] = analysed[wcmd.avatar])
       => /\ face_cache' = face_cache
          /\ wcmd.avatar \notin face_cache'
          /\ stdout' = Append(stdout, Resp("error", wcmd.action, wcmd.avatar, FALSE))
          /\ \A k \in {"precompute", "generate"}, a \in Avatars :
               a = wcmd.avatar => Dispatch(Line("cmd", k, a))' = "analyse"
      ]_vars

\* C33 witness: the worker has answered precompute of an avatar with an
\* error and then precompute of the same avatar with ok, having run the
\* analysis for it with success once.
C33_Witness ==
    \E a \in Avatars :
      /\ wpc = "loop" /\ a \in face_cache /\ analysed[a] = 1
      /\ stdout = <<Resp("ready", "none", 0, FALSE),
                    Resp("error", "precompute", a, FALSE),
                    Resp("ok", "precompute", a, FALSE)>>

\* C34: under any interleaving of load_models() calls on one pipeline object,
\* a load is begun only by a thread that holds the lock, at most one load
\* that does not end in an exception is ever begun (every other caller
\* returns at one of the two tests), and a call returns normally only when
\* the flag is set and all three models are assigned.
C34_LoadOnceUnderLock ==
    [][/\ loads - raised <= 1
       /\ \A t \in Threads :
            /\ pl_pc[t] \in {"l_test2", "l_load", "l_warm"} => model_lock = t
            /\ (pl_ret[t] # "returned" /\ pl_ret'[t] = "returned")
                 => (models_loaded' /\ models' = NumModels /\ loads' - raised' = 1)
      ]_vars

\* Both threads have returned from load_models(), one load having been made.
C34_Witness ==
    /\ \A t \in Threads : pl_pc[t] = "idle" /\ pl_ret[t] = "returned"
    /\ loads = 1 /\ raised = 0 /\ pl_calls = 2

\* C35: in the preloaded server, while one thread is inside generate() no
\* other thread is inside generate() or inside precompute_face().
C35_GenerateExcludesAll ==
    \A t \in Threads : \A u \in Threads \ {t} :
        InGenerate(t) => ~(InGenerate(u) \/ InPrecompute(u))

====
